---------------------------- MODULE Spec2Model ----------------------------
(***************************************************************************)
(* A model of app.py, the air-quality dashboard script: one run of the     *)
(* script from load_data() to the end of the sixth tab.                    *)
(*                                                                         *)
(* Numbers.  A measurement is a non-negative integer; a missing value      *)
(* (pandas NaN) is the value NaN below, and every comparison with it is    *)
(* false, as in Python.  Means are exact rationals [n |-> , d |-> ] with   *)
(* d > 0, compared by cross-multiplication.                                *)
(***************************************************************************)
EXTENDS Integers, Sequences, FiniteSets, TLC

VARIABLES
    pc,                \* position of the script
    file,              \* the CSV file on disk
    df,                \* the DataFrame returned by load_data()
    city_cols,         \* list of city column names
    df_long,           \* melted table (a sequence of records)
    df_pivot,          \* pivoted table
    user_city,         \* sidebar selectbox
    cur_aqi, cur_pm10, cur_pm25,
    adv_text,          \* sequence of message parts
    adv_color,
    pollutant_type,    \* sidebar selectbox of the measurement type
    ml_features,       \* clustering features present in df_pivot
    n_clusters,        \* the K slider
    df_city_features,  \* per-city mean feature vectors, NaN rows dropped
    Cluster_ID,        \* city -> cluster id given by KMeans.fit_predict
    cluster_means,     \* cluster id -> centroid in original units
    label_map,         \* cluster id -> label
    rendered,          \* elements drawn so far (advisory, tab charts)
    errors,            \* st.error messages shown, as <<place, message>>
    exception          \* <<place, name>> of the uncaught exception that ended the run

vars == <<pc, file, df, city_cols, df_long, df_pivot, user_city, cur_aqi,
          cur_pm10, cur_pm25, adv_text, adv_color, pollutant_type,
          ml_features, n_clusters, df_city_features, Cluster_ID,
          cluster_means, label_map, rendered, errors, exception>>

----------------------------------------------------------------------------
(* Bounds of the model *)

\* largest number of rows of the input file
MaxRows == 3

----------------------------------------------------------------------------
(* Generic helpers *)

Range(s) == {s[i] : i \in DOMAIN s}

\* pandas' missing value
NaN == -1

isna(x) == x = NaN

\* Python comparisons: anything compared with NaN is False
GT(x, t) == (~isna(x)) /\ x > t

\* Series.get(key, default): the default is used only when the key is absent
get(row, key, default) == IF key \in DOMAIN row THEN row[key] ELSE default

RECURSIVE SumSet(_, _)
SumSet(f, S) ==
    IF S = {} THEN 0
    ELSE LET x == CHOOSE y \in S : TRUE
         IN f[x] + SumSet(f, S \ {x})

\* exact rationals
Rat(n, d) == [n |-> n, d |-> d]

RatGT(q, a, b) == q.n * b > a * q.d      \* q > a/b  (b > 0)

RatLT(q, a, b) == q.n * b < a * q.d      \* q < a/b  (b > 0)

RECURSIVE RatSum(_, _)
RatSum(f, S) ==
    IF S = {} THEN Rat(0, 1)
    ELSE LET x == CHOOSE y \in S : TRUE
             r == RatSum(f, S \ {x})
         IN Rat(f[x].n * r.d + r.n * f[x].d, f[x].d * r.d)

\* arithmetic mean of the rationals f[x], x in S (S non-empty)
RatMean(f, S) ==
    LET s == RatSum(f, S)
    IN Rat(s.n, s.d * Cardinality(S))

----------------------------------------------------------------------------
(* 2. load_data *)

RECURSIVE Digits(_)
Digits(n) == IF n < 10 THEN <<n>> ELSE Append(Digits(n \div 10), n % 10)

RECURSIVE zfill(_, _)
zfill(s, width) == IF Len(s) >= width THEN s ELSE zfill(<<0>> \o s, width)

RECURSIVE Number(_)
Number(s) == IF s = <<>> THEN 0
             ELSE 10 * Number(SubSeq(s, 1, Len(s) - 1)) + s[Len(s)]

\* pd.to_datetime(date ++ hour.zfill(2), format='%Y%m%d%H') for an 8-digit
\* date: ok is FALSE when the string does not parse (the call raises), else
\* value is the instant, written YYYYMMDDHH
to_datetime(date, hour) ==
    LET s  == Digits(date) \o zfill(Digits(hour), 2)
        mm == Number(SubSeq(s, 5, 6))
        dd == Number(SubSeq(s, 7, 8))
        hh == Number(SubSeq(s, 9, 10))
    IN IF Len(s) = 10 /\ mm \in 1..12 /\ dd \in 1..31 /\ hh \in 0..23
       THEN [ok |-> TRUE, value |-> Number(s)]
       ELSE [ok |-> FALSE, value |-> 0]

EmptyDataFrame == [header |-> <<>>, rows |-> <<>>]

\* whether the try block of load_data runs without an exception
load_data_ok(f) ==
    /\ f.exists
    /\ \A i \in DOMAIN f.rows : to_datetime(f.rows[i].date, f.rows[i].hour).ok

\* the DataFrame load_data returns
load_data(f) ==
    IF load_data_ok(f)
    THEN [header |-> f.header,
          rows   |-> [i \in DOMAIN f.rows |->
                        [date |-> f.rows[i].date, hour |-> f.rows[i].hour,
                         type |-> f.rows[i].type, cells |-> f.rows[i].cells,
                         datetime_obj |-> to_datetime(f.rows[i].date, f.rows[i].hour).value]]]
    ELSE EmptyDataFrame

\* DataFrame.empty
empty(d) == d.rows = <<>>

----------------------------------------------------------------------------
(* 3. reshaping *)

metadata_cols == {"date", "hour", "type", "datetime_obj"}

\* line 58: the columns that are neither metadata nor 'datetime'
CityCols(d) == SelectSeq(d.header, LAMBDA c : c \notin metadata_cols /\ c # "datetime")

\* df.melt: one record per (city column, wide row), city-major
RECURSIVE melt(_, _)
melt(d, cities) ==
    IF cities = <<>> THEN <<>>
    ELSE [i \in DOMAIN d.rows |->
            [datetime_obj |-> d.rows[i].datetime_obj, type |-> d.rows[i].type,
             City |-> Head(cities), Value |-> d.rows[i].cells[Head(cities)]]]
         \o melt(d, Tail(cities))

GroupMean_fillna(long, I) ==
    IF I = {} THEN NaN
    ELSE SumSet([i \in I |-> IF isna(long[i].Value) THEN 0 ELSE long[i].Value], I)
            \div Cardinality(I)

\* mean of the non-missing values of the long records at positions I
\* (pandas skips NaN; NaN when nothing is left)
GroupMean(long, I) ==
    LET J == {i \in I : ~isna(long[i].Value)}
    IN IF J = {} THEN NaN
       ELSE SumSet([i \in J |-> long[i].Value], J) \div Cardinality(J)

\* df_long.pivot_table(index=[datetime_obj, City], columns=type, values=Value)
\* with the defaults aggfunc=mean, dropna=True: groups whose mean is NaN are
\* dropped before unstacking, so a (datetime_obj, City) with no value has no
\* row and a type with no value has no column.
pivot_table(long) ==
    LET Grp(t, c, y) == {i \in DOMAIN long : /\ long[i].datetime_obj = t
                                             /\ long[i].City = c
                                             /\ long[i].type = y}
        keys == {<<long[i].datetime_obj, long[i].City, long[i].type>> : i \in DOMAIN long}
        agged == {k \in keys : ~isna(GroupMean(long, Grp(k[1], k[2], k[3])))}
        index == {<<k[1], k[2]>> : k \in agged}
        columns == {k[3] : k \in agged}
    IN [index |-> index, columns |-> columns,
        cell |-> [r \in index |-> [y \in columns |->
                    IF <<r[1], r[2], y>> \in agged
                    THEN GroupMean(long, Grp(r[1], r[2], y))
                    ELSE NaN]]]

----------------------------------------------------------------------------
(* 4. sidebar advisory *)

\* line 86: the rows of one city, sorted by datetime_obj, last one
latest_row(p, c) ==
    LET mine == {r \in p.index : r[2] = c}
        last == CHOOSE r \in mine : \A q \in mine : q[1] <= r[1]
    IN p.cell[last]

\* lines 97-105: the default and the five overriding `if` lines, in order
DefaultAdvice == [text |-> <<"good">>, color |-> "green"]

Cascade ==
    << [gt |-> 50,  text |-> "moderate",  color |-> "orange"],
       [gt |-> 100, text |-> "light",     color |-> "orange"],
       [gt |-> 150, text |-> "medium",    color |-> "red"],
       [gt |-> 200, text |-> "heavy",     color |-> "red"],
       [gt |-> 300, text |-> "severe",    color |-> "red"] >>

RECURSIVE cascade(_, _, _)
cascade(aqi, adv, i) ==
    IF i > Len(Cascade) THEN adv
    ELSE cascade(aqi,
                 IF GT(aqi, Cascade[i].gt)
                 THEN [text |-> <<Cascade[i].text>>, color |-> Cascade[i].color]
                 ELSE adv,
                 i + 1)

cascade_ge(aqi) ==
    LET RECURSIVE go(_, _)
        go(adv, i) ==
            IF i > Len(Cascade) THEN adv
            ELSE go(IF (~isna(aqi)) /\ aqi >= Cascade[i].gt
                    THEN [text |-> <<Cascade[i].text>>, color |-> Cascade[i].color]
                    ELSE adv,
                    i + 1)
    IN go(DefaultAdvice, 1)

aqi_advice(aqi) == cascade(aqi, DefaultAdvice, 1)

\* x + y and x / y > t on floats that may be NaN (y > 0 when not NaN)
add(x, y) == IF isna(x) THEN NaN ELSE x + y

div_gt(x, y, t) == (~isna(x)) /\ (~isna(y)) /\ RatGT(Rat(x, y), t, 1)

dust_rule_ge(pm10, pm25) ==
    (~isna(pm10)) /\ pm10 >= 150 /\ div_gt(pm10, add(pm25, 1), 2)

\* line 109
dust_rule(pm10, pm25) ==
    GT(pm10, 150) /\ div_gt(pm10, add(pm25, 1), 2)

\* lines 97-110
advisory(aqi, pm10, pm25) ==
    LET a == aqi_advice(aqi)
    IN [text  |-> IF dust_rule(pm10, pm25) THEN Append(a.text, "dust_warning")
                  ELSE a.text,
        color |-> a.color]

\* lines 113-115
box(color) == IF color = "green" THEN "success"
              ELSE IF color = "orange" THEN "warning" ELSE "error"

----------------------------------------------------------------------------
(* Tab 6: clustering and labeling *)

Features == <<"AQI", "PM2.5", "PM10", "CO", "NO2", "SO2">>

\* a mean over no value at all (NaN)
RatNaN == Rat(0, 0)

RatIsNaN(q) == q.d = 0

RatEq(a, b) == a.n * b.d = b.n * a.d

RatDiv(a, b) == Rat(a.n * b.d, a.d * b.n)

\* line 274
MlFeatures(p) == {Features[i] : i \in {j \in DOMAIN Features : Features[j] \in p.columns}}

\* groupby('City')[f].mean() of one city: the mean of its non-missing cells
CityMean(p, c, f) ==
    LET J == {r \in p.index : r[2] = c /\ ~isna(p.cell[r][f])}
    IN IF J = {} THEN RatNaN
       ELSE Rat(SumSet([r \in J |-> p.cell[r][f]], J), Cardinality(J))

retained_any(p, feats) ==
    {c \in {r[2] : r \in p.index} : \E f \in feats : ~RatIsNaN(CityMean(p, c, f))}

\* line 277: .dropna() keeps the cities with no missing mean
retained(p, feats) ==
    {c \in {r[2] : r \in p.index} : \A f \in feats : ~RatIsNaN(CityMean(p, c, f))}

CityFeatures(p, feats) ==
    [c \in retained(p, feats) |-> [f \in feats |-> CityMean(p, c, f)]]

\* DataFrame.empty: no row or no column
features_empty(X, feats) == DOMAIN X = {} \/ feats = {}

SameVector(X, a, b) == \A f \in DOMAIN X[a] : RatEq(X[a][f], X[b][f])

\* lines 283-287.  The scaler and K-Means are library code: every labeling
\* of the rows with ids in 0..K-1 that gives equal rows equal ids is a
\* possible result.
fit_predict(X, K) ==
    {a \in [DOMAIN X -> 0..(K - 1)] :
        \A c1, c2 \in DOMAIN X : SameVector(X, c1, c2) => a[c1] = a[c2]}

\* line 290
ClusterMeans(X, ids, feats) ==
    [k \in {ids[c] : c \in DOMAIN ids} |->
        [f \in feats |-> RatMean([c \in DOMAIN X |-> X[c][f]],
                                 {c \in DOMAIN ids : ids[c] = k})]]

get_cluster_name_so2_first(row) ==
    LET aqi  == get(row, "AQI", Rat(0, 1))
        pm10 == get(row, "PM10", Rat(0, 1))
        pm25 == get(row, "PM2.5", Rat(0, 1))
        so2  == get(row, "SO2", Rat(0, 1))
        no2  == get(row, "NO2", Rat(0, 1))
        co   == get(row, "CO", Rat(0, 1))
        ratio_pm == RatDiv(pm10, Rat(10 * pm25.n + pm25.d, 10 * pm25.d))
    IN IF RatGT(so2, 25, 1) THEN "heavy_industry_coal"
       ELSE IF RatLT(aqi, 35, 1) THEN "pristine_eco"
       ELSE IF RatGT(pm10, 200, 1) /\ RatGT(ratio_pm, 25, 10) THEN "strong_duststorm"
       ELSE IF RatGT(pm10, 120, 1) /\ RatGT(ratio_pm, 20, 10) THEN "floating_dust"
       ELSE IF RatGT(so2, 15, 1) /\ RatGT(co, 10, 10) THEN "light_industry_heating"
       ELSE IF RatGT(no2, 45, 1) THEN "traffic_congestion"
       ELSE IF RatGT(aqi, 200, 1) THEN "severe_composite"
       ELSE IF RatGT(aqi, 150, 1) THEN "heavy_haze"
       ELSE IF RatGT(aqi, 100, 1) THEN "light_haze"
       ELSE IF RatLT(aqi, 70, 1) THEN "clean_livable"
       ELSE "transitional"

get_cluster_name_le70(row) ==
    LET aqi  == get(row, "AQI", Rat(0, 1))
        pm10 == get(row, "PM10", Rat(0, 1))
        pm25 == get(row, "PM2.5", Rat(0, 1))
        so2  == get(row, "SO2", Rat(0, 1))
        no2  == get(row, "NO2", Rat(0, 1))
        co   == get(row, "CO", Rat(0, 1))
        ratio_pm == RatDiv(pm10, Rat(10 * pm25.n + pm25.d, 10 * pm25.d))
    IN IF RatLT(aqi, 35, 1) THEN "pristine_eco"
       ELSE IF RatGT(pm10, 200, 1) /\ RatGT(ratio_pm, 25, 10) THEN "strong_duststorm"
       ELSE IF RatGT(pm10, 120, 1) /\ RatGT(ratio_pm, 20, 10) THEN "floating_dust"
       ELSE IF RatGT(so2, 25, 1) THEN "heavy_industry_coal"
       ELSE IF RatGT(so2, 15, 1) /\ RatGT(co, 10, 10) THEN "light_industry_heating"
       ELSE IF RatGT(no2, 45, 1) THEN "traffic_congestion"
       ELSE IF RatGT(aqi, 200, 1) THEN "severe_composite"
       ELSE IF RatGT(aqi, 150, 1) THEN "heavy_haze"
       ELSE IF RatGT(aqi, 100, 1) THEN "light_haze"
       ELSE IF ~RatGT(aqi, 70, 1) THEN "clean_livable"
       ELSE "transitional"

\* lines 292-314
get_cluster_name(row) ==
    LET aqi  == get(row, "AQI", Rat(0, 1))
        pm10 == get(row, "PM10", Rat(0, 1))
        pm25 == get(row, "PM2.5", Rat(0, 1))
        so2  == get(row, "SO2", Rat(0, 1))
        no2  == get(row, "NO2", Rat(0, 1))
        co   == get(row, "CO", Rat(0, 1))
        ratio_pm == RatDiv(pm10, Rat(10 * pm25.n + pm25.d, 10 * pm25.d))
    IN IF RatLT(aqi, 35, 1) THEN "pristine_eco"
       ELSE IF RatGT(pm10, 200, 1) /\ RatGT(ratio_pm, 25, 10) THEN "strong_duststorm"
       ELSE IF RatGT(pm10, 120, 1) /\ RatGT(ratio_pm, 20, 10) THEN "floating_dust"
       ELSE IF RatGT(so2, 25, 1) THEN "heavy_industry_coal"
       ELSE IF RatGT(so2, 15, 1) /\ RatGT(co, 10, 10) THEN "light_industry_heating"
       ELSE IF RatGT(no2, 45, 1) THEN "traffic_congestion"
       ELSE IF RatGT(aqi, 200, 1) THEN "severe_composite"
       ELSE IF RatGT(aqi, 150, 1) THEN "heavy_haze"
       ELSE IF RatGT(aqi, 100, 1) THEN "light_haze"
       ELSE IF RatLT(aqi, 70, 1) THEN "clean_livable"
       ELSE "transitional"

----------------------------------------------------------------------------
(* Input files of the model *)

Date == 20251206

\* the row keys (hour, type) a file of the model may hold, in file order:
\* two instants, a type that is no clustering feature, and an hour (24)
\* that does not parse
KeyOrder ==
    << <<3, "AQI">>, <<3, "PM2.5">>, <<3, "PM10">>, <<3, "O3">>,
       <<23, "AQI">>, <<23, "PM10">>, <<24, "AQI">> >>

\* the four default cities of the comparison multiselect (line 125)
DefaultCities == {"Beijing", "Shanghai", "Xian", "Guangzhou"}

Headers == { <<"Beijing", "Shanghai", "Xian", "Guangzhou">>,
             <<"datetime", "Beijing", "Shanghai">> }

Vals == {NaN, 160}

\* the cells of one row: Beijing holds b, every other city holds s
Cells(header, b, s) ==
    [c \in Range(header) |-> IF c = "datetime" THEN 0
                             ELSE IF c = "Beijing" THEN b ELSE s]

\* the file with the rows keyed by S (one row per (date, hour, type)), in
\* file order, row k holding the cell values v[k]
File(header, S, v) ==
    LET F[i \in 0..Len(KeyOrder)] ==
            IF i = 0 THEN <<>>
            ELSE IF KeyOrder[i] \in S
                 THEN Append(F[i - 1],
                             [date |-> Date, hour |-> KeyOrder[i][1],
                              type |-> KeyOrder[i][2],
                              cells |-> Cells(header, v[KeyOrder[i]][1], v[KeyOrder[i]][2])])
                 ELSE F[i - 1]
    IN [exists |-> TRUE, header |-> header, rows |-> F[Len(KeyOrder)]]

MissingFile == [exists |-> FALSE, header |-> <<>>, rows |-> <<>>]

EmptyPivot == [index |-> {}, columns |-> {}, cell |-> <<>>]

NoException == <<"", "none">>

\* the state of everything the script computes, before it has run
Blank ==
    /\ df = EmptyDataFrame
    /\ city_cols = <<>>
    /\ df_long = <<>>
    /\ df_pivot = EmptyPivot
    /\ user_city = ""
    /\ adv_text = <<>>
    /\ adv_color = ""
    /\ pollutant_type = ""
    /\ ml_features = {}
    /\ n_clusters = 0
    /\ df_city_features = <<>>
    /\ Cluster_ID = <<>>
    /\ label_map = <<>>
    /\ rendered = {}
    /\ errors = {}
    /\ exception = NoException

Init ==
    /\ pc = "load"
    /\ \/ file = MissingFile
       \/ \E header \in Headers :
          \E S \in SUBSET Range(KeyOrder) :
             /\ Cardinality(S) <= MaxRows
             /\ \E v \in [S -> Vals \X Vals] : file = File(header, S, v)
    /\ cur_aqi = 0 /\ cur_pm10 = 0 /\ cur_pm25 = 0
    /\ cluster_means = <<>>
    /\ Blank

----------------------------------------------------------------------------
(* The script, top to bottom *)

sidebar_vars == <<user_city, cur_aqi, cur_pm10, cur_pm25>>
advice_vars  == <<adv_text, adv_color>>
reshape_vars == <<city_cols, df_long, df_pivot>>
ml_vars      == <<ml_features, n_clusters, df_city_features, Cluster_ID, cluster_means>>

\* an uncaught exception ends the run
Raise(e) == pc' = "crashed" /\ exception' = <<pc, e>>

\* line 48
halts_never(d) == FALSE

halts(d) == empty(d)

\* lines 45-49
LoadData ==
    /\ pc = "load"
    /\ df' = load_data(file)
    /\ errors' = IF load_data_ok(file) THEN errors
                 ELSE errors \cup {<<"load", "load failed">>}
    /\ pc' = IF halts(df') THEN "stopped" ELSE "reshape"
    /\ UNCHANGED <<file, reshape_vars, sidebar_vars, advice_vars, pollutant_type,
                   ml_vars, label_map, rendered, exception>>

\* lines 55-75
Reshape ==
    /\ pc = "reshape"
    /\ city_cols' = CityCols(df)
    /\ df_long' = melt(df, city_cols')
    /\ df_pivot' = pivot_table(df_long')
    /\ pc' = "sidebar"
    /\ UNCHANGED <<file, df, sidebar_vars, advice_vars, pollutant_type, ml_vars,
                   label_map, rendered, errors, exception>>

\* the cities the model selects in the sidebar selectbox
UserCities == {"Beijing", "Shanghai"}

\* lines 83-94: iloc[-1] raises on a city with no pivoted row, int() on NaN
Sidebar ==
    /\ pc = "sidebar"
    /\ \E c \in Range(city_cols) \cap UserCities :
        /\ user_city' = c
        /\ IF {r \in df_pivot.index : r[2] = c} = {}
           THEN /\ Raise("IndexError")
                /\ UNCHANGED <<cur_aqi, cur_pm10, cur_pm25>>
           ELSE LET latest_df == latest_row(df_pivot, c)
                IN /\ cur_aqi' = get(latest_df, "AQI", 0)
                   /\ cur_pm10' = get(latest_df, "PM10", 0)
                   /\ cur_pm25' = get(latest_df, "PM2.5", 0)
                   /\ IF isna(cur_aqi') THEN Raise("ValueError")
                      ELSE pc' = "advisory" /\ UNCHANGED exception
    /\ UNCHANGED <<file, df, reshape_vars, advice_vars, pollutant_type, ml_vars,
                   label_map, rendered, errors>>

\* lines 97-118
Advisory ==
    /\ pc = "advisory"
    /\ adv_text' = advisory(cur_aqi, cur_pm10, cur_pm25).text
    /\ adv_color' = advisory(cur_aqi, cur_pm10, cur_pm25).color
    /\ rendered' = rendered \cup {"advisory_" \o box(adv_color')}
    /\ pc' = "filters"
    /\ UNCHANGED <<file, df, reshape_vars, sidebar_vars, pollutant_type, ml_vars,
                   label_map, errors, exception>>

\* lines 123-127: st.multiselect raises when a default is not an option
Filters ==
    /\ pc = "filters"
    /\ IF DefaultCities \subseteq Range(city_cols)
       THEN /\ \E t \in {df.rows[i].type : i \in DOMAIN df.rows} : pollutant_type' = t
            /\ pc' = "tab1"
            /\ UNCHANGED exception
       ELSE /\ Raise("StreamlitAPIException")
            /\ UNCHANGED pollutant_type
    /\ UNCHANGED <<file, df, reshape_vars, sidebar_vars, advice_vars, ml_vars,
                   label_map, rendered, errors>>

Rest == <<file, df, reshape_vars, sidebar_vars, advice_vars, pollutant_type>>

\* lines 143-161
Tab1 ==
    /\ pc = "tab1"
    /\ rendered' = rendered \cup {"tab1_bar"}
    /\ pc' = "tab2"
    /\ UNCHANGED <<Rest, ml_vars, label_map, errors, exception>>

\* lines 166-192, with the multiselect left at its default (never empty,
\* so the warning branch is not taken)
Tab2 ==
    /\ pc = "tab2"
    /\ LET selected_cities == DefaultCities
       IN rendered' = rendered \cup
            {IF selected_cities # {} THEN "tab2_line" ELSE "tab2_warning"}
    /\ pc' = "tab3"
    /\ UNCHANGED <<Rest, ml_vars, label_map, errors, exception>>

\* lines 197-206
Tab3 ==
    /\ pc = "tab3"
    /\ LET valid_cols == {"AQI", "PM2.5", "PM10", "CO", "NO2", "SO2", "O3"}
                            \cap df_pivot.columns
       IN rendered' = IF Cardinality(valid_cols) > 1
                      THEN rendered \cup {"tab3_heatmap"} ELSE rendered
    /\ pc' = "tab4"
    /\ UNCHANGED <<Rest, ml_vars, label_map, errors, exception>>

\* lines 211-228: px.scatter raises on color='AQI' when there is no AQI column
Tab4 ==
    /\ pc = "tab4"
    /\ IF {"PM2.5", "PM10"} \subseteq df_pivot.columns
       THEN IF "AQI" \in df_pivot.columns
            THEN /\ rendered' = rendered \cup {"tab4_scatter"}
                 /\ pc' = "tab5"
                 /\ UNCHANGED exception
            ELSE Raise("ValueError") /\ UNCHANGED rendered
       ELSE pc' = "tab5" /\ UNCHANGED <<rendered, exception>>
    /\ UNCHANGED <<Rest, ml_vars, label_map, errors>>

\* lines 233-251
Tab5 ==
    /\ pc = "tab5"
    /\ rendered' = IF "AQI" \in df_pivot.columns
                   THEN rendered \cup {"tab5_pie"} ELSE rendered
    /\ pc' = "tab6"
    /\ UNCHANGED <<Rest, ml_vars, label_map, errors, exception>>

\* lines 269-290: KMeans raises when there are fewer rows than clusters
Tab6Fit ==
    /\ pc = "tab6"
    /\ \E K \in 2..8 :
        /\ n_clusters' = K
        /\ ml_features' = MlFeatures(df_pivot)
        /\ df_city_features' = CityFeatures(df_pivot, ml_features')
        /\ IF features_empty(df_city_features', ml_features')
           THEN /\ errors' = errors \cup {<<"tab6", "not enough valid data">>}
                /\ pc' = "done"
                /\ UNCHANGED <<Cluster_ID, cluster_means, exception>>
           ELSE IF Cardinality(DOMAIN df_city_features') < K
           THEN /\ Raise("ValueError")
                /\ UNCHANGED <<Cluster_ID, cluster_means, errors>>
           ELSE /\ Cluster_ID' \in fit_predict(df_city_features', K)
                /\ cluster_means' = ClusterMeans(df_city_features', Cluster_ID', ml_features')
                /\ pc' = "label"
                /\ UNCHANGED <<errors, exception>>
    /\ UNCHANGED <<Rest, label_map, rendered>>

\* lines 316-320
LabelClusters ==
    /\ pc = "label"
    /\ label_map' = [k \in DOMAIN cluster_means |-> get_cluster_name(cluster_means[k])]
    /\ pc' = "charts"
    /\ UNCHANGED <<Rest, ml_vars, rendered, errors, exception>>

\* lines 323-403: px.scatter_3d raises when PM10, PM2.5 or AQI is no column
Tab6Charts ==
    /\ pc = "charts"
    /\ IF {"PM10", "PM2.5", "AQI"} \subseteq ml_features
       THEN /\ rendered' = rendered \cup {"tab6_clusters"}
            /\ pc' = "done"
            /\ UNCHANGED exception
       ELSE Raise("ValueError") /\ UNCHANGED rendered
    /\ UNCHANGED <<Rest, ml_vars, label_map, errors>>

Next ==
    \/ LoadData \/ Reshape \/ Sidebar \/ Advisory \/ Filters
    \/ Tab1 \/ Tab2 \/ Tab3 \/ Tab4 \/ Tab5
    \/ Tab6Fit \/ LabelClusters \/ Tab6Charts

Spec == Init /\ [][Next]_vars

----------------------------------------------------------------------------
(* The reshaping alone, on files whose cells hold distinguishable values *)

MaxRowsReshape == 2

ValsReshape == {NaN, 0, 7}

InitReshape ==
    /\ pc = "load"
    /\ \E header \in Headers :
       \E S \in SUBSET Range(KeyOrder) :
          /\ Cardinality(S) <= MaxRowsReshape
          /\ \E v \in [S -> ValsReshape \X ValsReshape] : file = File(header, S, v)
    /\ cur_aqi = 0 /\ cur_pm10 = 0 /\ cur_pm25 = 0
    /\ cluster_means = <<>>
    /\ Blank

NextReshape == LoadData \/ Reshape

SpecReshape == InitReshape /\ [][NextReshape]_vars

----------------------------------------------------------------------------
(* The advisory rule engine alone, on readings around its thresholds *)

AqiInputs == {0, 10, 50, 51, 60, 100, 101, 120, 150, 151, 170, 200, 201,
              250, 300, 301, 350}

Pm10Inputs == {NaN, 0, 150, 151, 160, 400}

Pm25Inputs == {NaN, 0, 74, 75, 79, 199}

InitAdvisory ==
    /\ pc = "advisory"
    /\ file = MissingFile
    /\ cur_aqi \in AqiInputs
    /\ cur_pm10 \in Pm10Inputs
    /\ cur_pm25 \in Pm25Inputs
    /\ cluster_means = <<>>
    /\ Blank

NextAdvisory == Advisory

SpecAdvisory == InitAdvisory /\ [][NextAdvisory]_vars

----------------------------------------------------------------------------
(* The labeling alone, on centroids around the cutoffs of the rules *)

AqiCentroids == {30, 34, 35, 50, 69, 70, 100, 101, 150, 151, 200, 201}

Pm10Centroids == {100, 121, 201}

\* tenths: 40.0, 60.4 (121 / (60.4 + 0.1) is exactly 2), 90.0
Pm25Centroids == {Rat(400, 10), Rat(604, 10), Rat(900, 10)}

So2Centroids == {10, 16, 25, 26, 30}

CoCentroids == {Rat(5, 10), Rat(10, 10), Rat(11, 10)}

No2Centroids == {45, 46}

Centroid(aqi, pm10, pm25, so2, co, no2) ==
    [f \in Range(Features) |->
        CASE f = "AQI"   -> Rat(aqi, 1)
          [] f = "PM10"  -> Rat(pm10, 1)
          [] f = "PM2.5" -> pm25
          [] f = "SO2"   -> Rat(so2, 1)
          [] f = "CO"    -> co
          [] f = "NO2"   -> Rat(no2, 1)]

InitLabel ==
    /\ pc = "label"
    /\ file = MissingFile
    /\ cur_aqi = 0 /\ cur_pm10 = 0 /\ cur_pm25 = 0
    /\ \E aqi \in AqiCentroids, pm10 \in Pm10Centroids, pm25 \in Pm25Centroids,
          so2 \in So2Centroids, co \in CoCentroids, no2 \in No2Centroids :
          cluster_means = [k \in {0} |-> Centroid(aqi, pm10, pm25, so2, co, no2)]
    /\ Blank

NextLabel == LabelClusters

SpecLabel == InitLabel /\ [][NextLabel]_vars

----------------------------------------------------------------------------
(* Properties *)

\* the severity tier a tier message stands for
TierOf(text) ==
    CASE text = "good"     -> 0
      [] text = "moderate" -> 1
      [] text = "light"    -> 2
      [] text = "medium"   -> 3
      [] text = "heavy"    -> 4
      [] text = "severe"   -> 5

AdvisoryShown == pc = "filters" /\ adv_text # <<>>

HasDustWarning == "dust_warning" \in Range(adv_text)

\* C1: the tier the rule engine returns is the number of thresholds among
\* 50, 100, 150, 200, 300 that the AQI strictly exceeds; in particular AQI
\* 10, 60, 120, 170, 250, 350 give tiers 0, 1, 2, 3, 4, 5 and the boundary
\* values 50 and 100 give tiers 0 and 1.
C1_TierCountsExceededThresholds ==
    AdvisoryShown =>
        /\ TierOf(Head(adv_text))
             = Cardinality({t \in {50, 100, 150, 200, 300} : cur_aqi > t})
        /\ \A e \in {<<10, 0>>, <<60, 1>>, <<120, 2>>, <<170, 3>>, <<250, 4>>,
                     <<350, 5>>, <<50, 0>>, <<100, 1>>, <<301, 5>>} :
              cur_aqi = e[1] => TierOf(Head(adv_text)) = e[2]

C1_Witness ==
    /\ AdvisoryShown
    /\ cur_aqi = 100
    /\ TierOf(Head(adv_text)) = 1

\* C3: the dust warning is present exactly when PM10 > 150 and
\* PM10 / (PM2.5 + 1) > 2 (both readings available), at every tier; it is
\* appended after the tier message, and the tier and its color class (tier 0
\* green, tiers 1-2 orange, tiers 3-5 red) are those of the AQI alone.
\* PM10 = 150 with PM2.5 = 74 gives no warning, PM10 = 151 with PM2.5 = 74
\* gives it.
C3_DustFlagExact ==
    AdvisoryShown =>
        LET tier == Cardinality({t \in {50, 100, 150, 200, 300} : cur_aqi > t})
            dust == /\ cur_pm10 # NaN /\ cur_pm25 # NaN
                    /\ cur_pm10 > 150
                    /\ cur_pm10 > 2 * (cur_pm25 + 1)
        IN /\ HasDustWarning <=> dust
           /\ adv_text = IF dust THEN <<Head(adv_text), "dust_warning">>
                         ELSE <<Head(adv_text)>>
           /\ TierOf(Head(adv_text)) = tier
           /\ adv_color = IF tier = 0 THEN "green"
                          ELSE IF tier <= 2 THEN "orange" ELSE "red"
           /\ (cur_pm10 = 150 /\ cur_pm25 = 74) => ~HasDustWarning
           /\ (cur_pm10 = 151 /\ cur_pm25 = 74) => HasDustWarning

C3_Witness ==
    /\ AdvisoryShown
    /\ cur_pm10 = 151 /\ cur_pm25 = 74
    /\ cur_aqi = 10
    /\ adv_text = <<"good", "dust_warning">>
    /\ adv_color = "green"

----------------------------------------------------------------------------
(* Labeling *)

Labeled == pc = "charts" /\ 0 \in DOMAIN label_map

\* the rule list of the labeling, as predicates on a centroid
Val(row, f) == IF f \in DOMAIN row THEN row[f] ELSE Rat(0, 1)

\* PM10 / (PM2.5 + 0.1) > a/b
PmRatioGT(row, a, b) ==
    LET pm10 == Val(row, "PM10")
        pm25 == Val(row, "PM2.5")
    IN 10 * pm10.n * pm25.d * b > a * pm10.d * (10 * pm25.n + pm25.d)

Rule1(row) == RatLT(Val(row, "AQI"), 35, 1)

Rule2(row) == \/ RatGT(Val(row, "PM10"), 200, 1) /\ PmRatioGT(row, 5, 2)
              \/ RatGT(Val(row, "PM10"), 120, 1) /\ PmRatioGT(row, 2, 1)

Rule3(row) == \/ RatGT(Val(row, "SO2"), 25, 1)
              \/ RatGT(Val(row, "SO2"), 15, 1) /\ RatGT(Val(row, "CO"), 1, 1)

Rule4(row) == RatGT(Val(row, "NO2"), 45, 1)

FirstRule(row) ==
    IF Rule1(row) THEN 1
    ELSE IF Rule2(row) THEN 2
    ELSE IF Rule3(row) THEN 3
    ELSE IF Rule4(row) THEN 4
    ELSE 5

\* the rule a label belongs to
Category(label) ==
    IF label = "pristine_eco" THEN 1
    ELSE IF label \in {"strong_duststorm", "floating_dust"} THEN 2
    ELSE IF label \in {"heavy_industry_coal", "light_industry_heating"} THEN 3
    ELSE IF label = "traffic_congestion" THEN 4
    ELSE 5

\* C2: the label of a centroid belongs to the earliest rule whose predicate
\* holds (1 pristine, 2 dust, 3 industrial, 4 traffic, 5 AQI-band fallback);
\* a centroid with AQI below the rule-1 cutoff is labeled pristine whatever
\* its other features.
C2_FirstMatchWins ==
    Labeled =>
        /\ Category(label_map[0]) = FirstRule(cluster_means[0])
        /\ Rule1(cluster_means[0]) => label_map[0] = "pristine_eco"

C2_Witness ==
    /\ Labeled
    /\ cluster_means[0]["AQI"] = Rat(30, 1)
    /\ cluster_means[0]["SO2"] = Rat(30, 1)
    /\ label_map[0] = "pristine_eco"

\* C9 as stated: a centroid matching none of the rules 1-4 is labeled
\* severe-composite when AQI > 200, heavy-haze when 150 < AQI <= 200,
\* light-haze when 100 < AQI <= 150, and transitional for every AQI <= 100.
C9_FallbackBandsAsStated ==
    (Labeled /\ FirstRule(cluster_means[0]) = 5) =>
        LET aqi == Val(cluster_means[0], "AQI")
        IN label_map[0] =
             IF RatGT(aqi, 200, 1) THEN "severe_composite"
             ELSE IF RatGT(aqi, 150, 1) THEN "heavy_haze"
             ELSE IF RatGT(aqi, 100, 1) THEN "light_haze"
             ELSE "transitional"

\* C9 amended: as stated for AQI > 100; for AQI <= 100 the label is
\* clean-livable when AQI < 70 and transitional when 70 <= AQI <= 100.
C9_FallbackBands ==
    (Labeled /\ FirstRule(cluster_means[0]) = 5) =>
        LET aqi == Val(cluster_means[0], "AQI")
        IN label_map[0] =
             IF RatGT(aqi, 200, 1) THEN "severe_composite"
             ELSE IF RatGT(aqi, 150, 1) THEN "heavy_haze"
             ELSE IF RatGT(aqi, 100, 1) THEN "light_haze"
             ELSE IF RatLT(aqi, 70, 1) THEN "clean_livable"
             ELSE "transitional"

C9_Witness ==
    /\ Labeled
    /\ FirstRule(cluster_means[0]) = 5
    /\ cluster_means[0]["AQI"] = Rat(50, 1)
    /\ label_map[0] = "clean_livable"

----------------------------------------------------------------------------
(* Reshaping *)

\* the instant of a wide row, YYYYMMDDHH
Instant(row) == row.date * 100 + row.hour

\* the columns of the wide table that are melted
MeltedCols ==
    Range(df.header) \ {"date", "hour", "type", "datetime_obj", "datetime"}

Reshaped == pc = "sidebar"

\* the pivoted cell of (instant, city) for a type; missing when the type has
\* no column
PivotCell(t, c, y) ==
    IF y \in df_pivot.columns THEN df_pivot.cell[<<t, c>>][y] ELSE NaN

\* the positions of the long table that carry the key (instant, city, type)
LongAt(t, c, y) ==
    {j \in DOMAIN df_long : /\ df_long[j].datetime_obj = t
                            /\ df_long[j].City = c
                            /\ df_long[j].type = y}

\* every cell of the wide table appears exactly once in the long table,
\* under its key, and the long table holds nothing else
LongRoundTrip ==
    /\ \A i \in DOMAIN df.rows : \A c \in MeltedCols :
          LET at == LongAt(Instant(df.rows[i]), c, df.rows[i].type)
          IN /\ Cardinality(at) = 1
             /\ \A j \in at : df_long[j].Value = df.rows[i].cells[c]
    /\ Len(df_long) = Len(df.rows) * Cardinality(MeltedCols)
    /\ \A j \in DOMAIN df_long : df_long[j].City \in MeltedCols

\* C7 as stated: every wide cell appears exactly once in the long table under
\* (instant, city, type), and the pivoted table has a row for every
\* (instant, city) whose cell for that type holds exactly that value.
C7_RoundTripAsStated ==
    Reshaped =>
        /\ LongRoundTrip
        /\ \A i \in DOMAIN df.rows : \A c \in MeltedCols :
              /\ <<Instant(df.rows[i]), c>> \in df_pivot.index
              /\ PivotCell(Instant(df.rows[i]), c, df.rows[i].type)
                    = df.rows[i].cells[c]

\* C7 amended (for a wide table with one row per (date, hour, type)): every
\* wide cell appears exactly once in the long table under (instant, city,
\* type); the pivoted table has a row for (instant, city) exactly when the
\* wide table holds a non-missing value for that city at that instant, and
\* then its cell for each type holds exactly the wide value, missing when
\* the type has no row at that instant.
C7_RoundTrip ==
    Reshaped =>
        /\ LongRoundTrip
        /\ df_pivot.index =
              {<<Instant(df.rows[i]), c>> :
                  <<i, c>> \in {x \in (DOMAIN df.rows) \X MeltedCols :
                                    df.rows[x[1]].cells[x[2]] # NaN}}
        /\ \A i \in DOMAIN df.rows : \A c \in MeltedCols :
              <<Instant(df.rows[i]), c>> \in df_pivot.index =>
                 PivotCell(Instant(df.rows[i]), c, df.rows[i].type)
                    = df.rows[i].cells[c]
        /\ \A r \in df_pivot.index : \A y \in df_pivot.columns :
              (\A i \in DOMAIN df.rows :
                  ~(Instant(df.rows[i]) = r[1] /\ df.rows[i].type = y))
                 => df_pivot.cell[r][y] = NaN

\* a pivoted row with one value and one missing cell, next to a city with no
\* value at that instant, in a file that also has a 'datetime' column
C7_Witness ==
    /\ Reshaped
    /\ "datetime" \in Range(df.header)
    /\ \E r \in df_pivot.index :
          /\ \E y \in df_pivot.columns : df_pivot.cell[r][y] = 7
          /\ \E y \in df_pivot.columns : df_pivot.cell[r][y] = NaN
          /\ \E c \in MeltedCols : <<r[1], c>> \notin df_pivot.index

----------------------------------------------------------------------------
(* The run *)

\* the input cannot be loaded: no file, or an hour that is no hour of a day
LoadFails ==
    \/ ~file.exists
    \/ \E i \in DOMAIN file.rows : file.rows[i].hour \notin 0..23

\* C5: when loading fails, the run halts right after showing the load
\* error: nothing is reshaped, no advisory and no tab is rendered.
C5_LoadErrorHaltsRun ==
    (LoadFails /\ pc # "load") =>
        /\ pc = "stopped"
        /\ errors = {<<"load", "load failed">>}
        /\ rendered = {}
        /\ adv_text = <<>>
        /\ df_long = <<>>
        /\ df_pivot = EmptyPivot
        /\ exception = NoException

C5_Witness ==
    /\ pc = "stopped"
    /\ file.exists
    /\ \E i \in DOMAIN file.rows : file.rows[i].hour = 24
    /\ \E i \in DOMAIN file.rows : file.rows[i].hour = 3
    /\ errors = {<<"load", "load failed">>}

\* C6: in a run whose load succeeded, no tab ends the run: each tab renders
\* or shows its own error and the script goes on to the end of the last tab.
C6_TabErrorsStayInTheirTab ==
    exception[1] \notin {"tab1", "tab2", "tab3", "tab4", "tab5", "tab6", "label", "charts"}

\* the clustering step of tab 6 has run
Tab6Ran == n_clusters # 0

\* C4: with fewer than 3 of the requested features present as columns of the
\* pivoted table, K-Means is not run: no cluster assignment, no centroid and
\* no label is produced.
C4_FewFeaturesNoClustering ==
    (Tab6Ran /\ Cardinality(ml_features) < 3) =>
        /\ DOMAIN Cluster_ID = {}
        /\ DOMAIN cluster_means = {}
        /\ DOMAIN label_map = {}

\* city c has a value of type f somewhere in the loaded table
HasValue(c, f) ==
    \E i \in DOMAIN df.rows : df.rows[i].type = f /\ df.rows[i].cells[c] # NaN

\* the cities with a value for every clustering feature
Complete == {c \in Range(city_cols) : \A f \in ml_features : HasValue(c, f)}

\* C8: a city with a missing value in a clustering feature is no row of the
\* matrix given to K-Means, has no Cluster_ID and so no label, and is a member
\* of no cluster; every other city is a row of the matrix, and when K-Means
\* has run every other city has a Cluster_ID, the clusters with a centroid
\* and a label being exactly those with a member.
C8_IncompleteCitiesExcluded ==
    Tab6Ran =>
        /\ ml_features # {} => DOMAIN df_city_features = Complete
        /\ DOMAIN Cluster_ID \subseteq Complete
        /\ pc \in {"label", "charts", "done"} /\ errors = {} =>
              /\ DOMAIN Cluster_ID = Complete
              /\ DOMAIN cluster_means = {Cluster_ID[c] : c \in Complete}
        /\ DOMAIN label_map \subseteq DOMAIN cluster_means
        /\ pc \in {"charts", "done"} /\ errors = {} =>
              DOMAIN label_map = {Cluster_ID[c] : c \in Complete}

\* Beijing has a value for one feature and none for another; the other
\* cities are clustered and labeled
C8_Witness ==
    /\ pc = "charts"
    /\ \E f \in ml_features : HasValue("Beijing", f)
    /\ \E f \in ml_features : ~HasValue("Beijing", f)
    /\ "Beijing" \notin DOMAIN Cluster_ID
    /\ "Shanghai" \in DOMAIN Cluster_ID
    /\ DOMAIN label_map # {}

\* a reading of the selected city's latest pivoted row is missing
MissingReading(y) ==
    LET latest_df == latest_row(df_pivot, user_city)
    IN y \notin DOMAIN latest_df \/ latest_df[y] = NaN

\* C10: a missing reading of the selected city's latest row is never used
\* as the value 0: when AQI is missing the advisory does not show the tier
\* and message of AQI 0, and when PM10 or PM2.5 is missing it does not raise
\* the dust warning that the value 0 in its place raises.
C10_MissingIsNeverZero ==
    AdvisoryShown =>
        /\ MissingReading("AQI") => Head(adv_text) # "good"
        /\ (MissingReading("PM10") \/ MissingReading("PM2.5")) => ~HasDustWarning

=============================================================================
